---- MODULE Spec2Model ----
(***************************************************************************)
(* Distributed generation of beam transfer matrices                        *)
(* (drift/core/beamtransfer.py): BeamTransfer.generate() run by `size` MPI *)
(* ranks on one run directory.  The model keeps the directory's files, the *)
(* position of every rank inside generate(), and the MPI collectives that  *)
(* order the ranks.  The job may be killed at any step; the files its      *)
(* ranks had open for writing are then left as the kill leaves them.       *)
(***************************************************************************)
EXTENDS Integers, Sequences, FiniteSets, TLC

\* ---------------------------------------------------------------- bounds
MMax == 1          \* telescope.mmax: the modes are 0..MMax
NumChunks == 1     \* num_chunks of the raw redistribution
MaxWorkers == 2    \* largest mpiutil.size
MaxRuns == 2       \* generate() runs on the directory
NFreq == 2         \* telescope.nfreq
Ntel == 2          \* ntel = 2 * telescope.npairs
Lside == 2         \* telescope.lmax + 1
MaxSv == 2         \* singular values are 0..MaxSv
CutDen == 2        \* svcut is a multiple of 1/CutDen between 0 and 1
NPolMax == 2       \* telescope.num_pol_sky is 1..NPolMax

Modes == 0..MMax
Workers == 0..(MaxWorkers - 1)
Chunks == 1..NumChunks

\* The classes whose generate() is modelled: BeamTransfer (frequency
\* diagonal, also BeamTransferNoSVD), BeamTransferTempSVD (also
\* BeamTransferFullSVD, same driver), BeamTransferFullFreq (also its
\* subclasses' final SVD pass).
Variants == {"FreqDiag", "TempSVD", "FullFreq"}

VARIABLES
    runId,        \* number of generate() runs started so far
    variant,      \* class of the object generate() is called on
    regen,        \* generate(regen=...)
    skip_svd,     \* generate(skip_svd=...)
    size,         \* mpiutil.size: the number of ranks of every run
    pc,           \* per rank: position inside generate()
    idx,          \* per rank: position in the list it iterates over
    ci,           \* per rank: chunk of the raw redistribution
    bcount,       \* per rank: collectives entered so far in this run
    m_list,       \* FullFreq: the broadcast list of modes to compute
    pickleRun,    \* telescopeobject.pickle: run of its last write, 0 absent
    completed,    \* beam_m/COMPLETED exists
    marker,       \* beam_m/FULLFREQ_SVD_USED exists
    mfile,        \* per mode: beam.hdf5
    svd,          \* per mode: svd.hdf5
    tmp,          \* per mode: .svd.hdf5 (temporary of misc.lock_file)
    spectrum,     \* svdspectrum.hdf5
    \* ---- history, for stating properties only
    svd0,         \* svd at the start of the run
    mfile0,       \* mfile at the start of the run
    tmp0,         \* tmp at the start of the run
    spectrum0,    \* spectrum at the start of the run
    skipped,      \* modes whose SVD generation this run skipped
    computed,     \* modes whose compression this run started
    interrupted,  \* modes whose SVD write a crash interrupted, not redone since
    lastComplete, \* variant of the previous run if it finished, else "none"
    rawGen,       \* run of the most recent raw generation, 0 if none
    failedAt,     \* per rank: what made it raise, "" if nothing
    variantOf,    \* per run: the class generate() was called on, else "none"
    \* ---- the decompositions of one (mode, frequency) block
    dkind,        \* "staged": SVD1, SVD2, SVD3; "single": svd_gen; "" none
    dfn,          \* the function of the current or last call
    dpc,          \* position inside the block and the call
    nsvd,         \* la.svd calls made by the call
    nfail,        \* la.svd calls of the call that raised LinAlgError
    regularised,  \* the matrix handed to the last la.svd was A + sv*1e-10*eye
    dlog,         \* messages printed by the call
    stages,       \* per finished call of the block: where its factors come from
    dclass,       \* class whose _generate_svdfiles computes the block
    dnpol,        \* telescope.num_pol_sky of the block
    \* ---- a process that reads the SVD artifacts of the directory
    rclass,       \* class of its object
    racc,         \* the accessor it calls
    cache,        \* util.cache_last of that accessor: last arguments and result
    lastRead,     \* the last call since the last job: arguments, outcome, file
    \* ---- the singular values of one mode's artifact and the cutoff
    cclass,       \* class that wrote and reads the artifact
    wfi,          \* frequency the writer is at; NFreq: the file is closed
    sv,           \* dataset "singularvalues", flat: slot fi * svd_len + j
    written,      \* slots the writer has assigned
    ndofBy,       \* per svcut: ndof(mi) when it was asked, else -1
    svnum,        \* _svd_num of the last call: count per frequency
    svbounds,     \* _svd_num of the last call: block bounds
    proj,         \* the last projection call: input shape, rows used, outcome
    \* ---- single calls of the module's functions
    mcall,        \* the last matrix_image or matrix_nullspace call and its result
    pinv,         \* pseudo-inverse of the block: solver calls made, outcome
    \* ---- the datasets of the SVD artifacts over several generate() calls
    vclass,       \* class generate() is called on
    vregen,       \* its argument regen
    vskip_svd,    \* its argument skip_svd
    skip_svd_inv, \* its argument skip_svd_inv
    vruns,        \* generate() calls so far
    vpc,          \* "idle", in the loop "svd", "done", "failed"
    vmi,          \* the mode the loop of _generate_svdfiles is at
    datasets      \* per mode: "absent", or the file "with" or "without" invbeam_svd

gen == << runId, variant, regen, skip_svd, size, pc, idx, ci, bcount, m_list,
          pickleRun, completed, marker, mfile, svd, tmp, spectrum,
          svd0, mfile0, tmp0, spectrum0, skipped, computed, interrupted,
          lastComplete, rawGen, failedAt, variantOf >>

dsetup == << dclass, dnpol >>

dec == << dkind, dfn, dpc, nsvd, nfail, regularised, dlog, stages, dsetup >>

\* The variables of calls modelled on their own, outside generate().
acc == << rclass, racc, cache, lastRead >>

cut == << cclass, wfi, sv, written, ndofBy, svnum, svbounds, proj >>

\* Calls that are followed on their own, one call at a time.
inv == << vclass, vregen, vskip_svd, skip_svd_inv, vruns, vpc, vmi, datasets >>

aux == << mcall, pinv, inv >>

callvars == << dec, acc, cut, aux >>

vars == << gen, callvars >>

shared == << pickleRun, completed, marker, mfile, svd, tmp, spectrum >>
params == << runId, variant, regen, skip_svd, size, svd0, mfile0, tmp0,
             spectrum0, lastComplete, variantOf >>

Active == 0..(size - 1)
rank0(w) == w = 0
Terminal == {"idle", "done", "crashed", "failed"}

\* ------------------------------------------------------------ file states
\* "absent"    no file under that name
\* "writing"   open for writing, not yet closed
\* "broken"    left by a crash, h5py cannot open it
\* "truncated" left by a crash or an exception, opens but lacks data
\* "complete"  written and closed
NoFile == [st |-> "absent", run |-> 0]
NoChunks == [c \in Chunks |-> 0]
NoMFile == [st |-> "absent", chunks |-> NoChunks]
NoSpectrum == [run |-> 0, content |-> [mi \in Modes |-> 0]]

Exists(f) == f.st # "absent"
Openable(f) == f.st \in {"truncated", "complete"}

\* ------------------------------------------------- caput.mpiutil helpers
Min(a, b) == IF a < b THEN a ELSE b

\* partition_list(..., method="con"): start of piece i of N items in n pieces
PartitionStart(N, n, i) == i * (N \div n) + Min(i, N % n)

\* Mutant: every rank takes the whole list.
partition_list_mpi_All(full_list, w) == full_list

partition_list_mpi(full_list, w) ==
    LET N == Len(full_list)
    IN  SubSeq(full_list, PartitionStart(N, size, w) + 1,
                          PartitionStart(N, size, w + 1))

RangeSeq(n) == [i \in 1..n |-> i - 1]

mpirange(n, w) == partition_list_mpi(RangeSeq(n), w)

\* split_local(n): (num, start, end) of this rank; the modes start..end-1
split_local(n, w) ==
    LET s == PartitionStart(n, size, w)
        e == PartitionStart(n, size, w + 1)
    IN  [i \in 1..(e - s) |-> s + i - 1]

\* A rank enters a collective (barrier, transpose_blocks): counted in order.
Arrive(w) == bcount' = [bcount EXCEPT ![w] = @ + 1]

\* Mutant: the collective returns without waiting for the other ranks.
Released_NoWait(w) == TRUE

\* Mutant: the collective waits for rank 0 only.
Released_RootOnly(w) == bcount[0] >= bcount[w]

\* The collective completes for w once every rank of the run has entered it.
Released(w) == \A v \in Active : bcount[v] >= bcount[w]

Goto(w, p) == pc' = [pc EXCEPT ![w] = p]

Raise(w, what) ==
    /\ pc' = [pc EXCEPT ![w] = "failed"]
    /\ failedAt' = [failedAt EXCEPT ![w] = what]

\* ------------------------------------------------------------------ Init
\* No decomposition call is running.
DecIdle ==
    /\ dkind = ""
    /\ dfn = ""
    /\ dpc = "idle"
    /\ nsvd = 0
    /\ nfail = 0
    /\ regularised = FALSE
    /\ dlog = << >>
    /\ stages = << >>
    /\ dclass = "BeamTransfer"
    /\ dnpol = NPolMax

\* fi=None of the accessors.
None == -1

NoCache == [key |-> << >>, val |-> 0]
NoRead == [mi |-> None, fi |-> None, out |-> "none", val |-> 0, hit |-> FALSE,
           st0 |-> "none"]

\* No reader: nothing cached, nothing read.
AccIdle ==
    /\ rclass = "BeamTransfer"
    /\ racc = "beam_svd"
    /\ cache = NoCache
    /\ lastRead = NoRead

\* ---- dimensions of one mode's SVD artifact
svd_len == Min(Lside, Ntel)

ndofmax == svd_len * NFreq

Freqs == 0..(NFreq - 1)

Slots == 1..ndofmax

\* Flat position of entry j (from 1) of frequency fi in "singularvalues".
Slot(fi, j) == fi * svd_len + j

Cuts == 0..CutDen

CutClasses == {"BeamTransfer", "BeamTransferNoSVD", "BeamTransferFullFreq"}

NoProj == [op |-> "none", cut |-> 0, shape |-> << >>, out |-> "none", used |-> {},
           n |-> -1]

\* A freshly created SVD file: the datasets are zero filled.
CutIdle ==
    /\ cclass = "BeamTransfer"
    /\ wfi = 0
    /\ sv = [k \in Slots |-> 0]
    /\ written = {}
    /\ ndofBy = [c \in Cuts |-> -1]
    /\ svnum = << >>
    /\ svbounds = << >>
    /\ proj = NoProj

NoCall == [fn |-> "none", rows |-> 0, cols |-> 0, s |-> << >>, rtol |-> 0,
           cut |-> 0, dim |-> 0]

NoPinv == [n |-> 0, out |-> "none"]

InvIdle ==
    /\ vclass = "BeamTransfer"
    /\ vregen = FALSE
    /\ vskip_svd = FALSE
    /\ skip_svd_inv = FALSE
    /\ vruns = 0
    /\ vpc = "idle"
    /\ vmi = 0
    /\ datasets = [mi \in Modes |-> "absent"]

AuxIdle ==
    /\ mcall = NoCall
    /\ pinv = NoPinv
    /\ InvIdle

\* The run directory before the first generate().
GenInit ==
    /\ runId = 0
    /\ variant = "FreqDiag"
    /\ regen = FALSE
    /\ skip_svd = FALSE
    /\ size \in 1..MaxWorkers
    /\ pc = [w \in Workers |-> "idle"]
    /\ idx = [w \in Workers |-> 1]
    /\ ci = [w \in Workers |-> 1]
    /\ bcount = [w \in Workers |-> 0]
    /\ m_list = << >>
    /\ pickleRun = 0
    /\ completed = FALSE
    /\ marker = FALSE
    /\ mfile = [mi \in Modes |-> NoMFile]
    /\ svd = [mi \in Modes |-> NoFile]
    /\ tmp = [mi \in Modes |-> "absent"]
    /\ spectrum = NoSpectrum
    /\ svd0 = [mi \in Modes |-> NoFile]
    /\ mfile0 = [mi \in Modes |-> NoMFile]
    /\ tmp0 = [mi \in Modes |-> "absent"]
    /\ spectrum0 = NoSpectrum
    /\ skipped = {}
    /\ computed = {}
    /\ interrupted = {}
    /\ lastComplete = "none"
    /\ rawGen = 0
    /\ failedAt = [w \in Workers |-> ""]
    /\ variantOf = [r \in 1..MaxRuns |-> "none"]

Init ==
    /\ DecIdle
    /\ AccIdle
    /\ CutIdle
    /\ AuxIdle
    /\ GenInit

\* ------------------------------------------------------------ generate()
\* A new job calls generate() once every rank of the previous job has ended.
StartRun(v, r, s) ==
    /\ runId < MaxRuns
    /\ \A w \in Workers : pc[w] \in Terminal
    /\ runId' = runId + 1
    /\ variant' = v
    /\ variantOf' = [variantOf EXCEPT ![runId + 1] = v]
    /\ regen' = r
    /\ skip_svd' = s
    /\ pc' = [w \in Workers |-> IF w \in Active THEN "dirs" ELSE "idle"]
    /\ idx' = [w \in Workers |-> 1]
    /\ ci' = [w \in Workers |-> 1]
    /\ bcount' = [w \in Workers |-> 0]
    /\ m_list' = << >>
    /\ svd0' = svd
    /\ mfile0' = mfile
    /\ tmp0' = tmp
    /\ spectrum0' = spectrum
    /\ skipped' = {}
    /\ computed' = {}
    /\ lastComplete' = IF runId > 0 /\ ~skip_svd
                          /\ \A w \in Active : pc[w] = "done"
                       THEN variant ELSE "none"
    /\ failedAt' = [w \in Workers |-> ""]
    /\ lastRead' = NoRead
    /\ UNCHANGED << dec, cut, aux, rclass, racc, cache, size, shared, interrupted,
                    rawGen >>

\* _generate_dirs: rank 0 makes the directories, then everyone synchronises.
GenerateDirs(w) ==
    /\ pc[w] = "dirs"
    /\ Arrive(w)
    /\ Goto(w, "B_dirs")
    /\ UNCHANGED << callvars, params, shared, idx, ci, m_list, skipped, computed,
                    interrupted, rawGen, failedAt >>

\* generate(): rank 0 saves the pickled telescope, unconditionally.
SavePickle(w) ==
    /\ pc[w] = "pickle"
    /\ rank0(w)
    /\ pickleRun' = runId
    /\ Goto(w, "mcheck")
    /\ UNCHANGED << callvars, params, idx, ci, bcount, m_list, completed, marker, mfile,
                    svd, tmp, spectrum, skipped, computed, interrupted,
                    rawGen, failedAt >>

\* ------------------------------------------------------ _generate_mfiles
\* Entry of _generate_mfiles: return at once when the sentinel exists and
\* regeneration is not forced; otherwise this run generates the raw operators.
MCheck(w) ==
    /\ pc[w] = "mcheck"
    /\ IF completed /\ ~regen
       THEN /\ Goto(w, "svdstart")
            /\ UNCHANGED << rawGen, idx >>
       ELSE /\ Goto(w, "mcreate")
            /\ rawGen' = runId
            /\ idx' = [idx EXCEPT ![w] = 1]
    /\ UNCHANGED << callvars, params, shared, ci, bcount, m_list, skipped, computed,
                    interrupted, failedAt >>

\* Does the creation loop leave an existing file alone?
KeepMFile(mi) == Exists(mfile[mi]) /\ ~regen

\* Creation loop over mpirange(mmax + 1): h5py.File(_mfile(mi), "w") and
\* create_dataset; the file is open until MCreateClose.
MCreate(w) ==
    /\ pc[w] = "mcreate"
    /\ LET lst == mpirange(MMax + 1, w)
       IN  IF idx[w] > Len(lst)
           THEN /\ Arrive(w)
                /\ Goto(w, "B_mcreate")
                /\ UNCHANGED << mfile, idx >>
           ELSE LET mi == lst[idx[w]]
                IN  IF KeepMFile(mi)
                    THEN /\ idx' = [idx EXCEPT ![w] = @ + 1]
                         /\ UNCHANGED << mfile, pc, bcount >>
                    ELSE /\ mfile' = [mfile EXCEPT ![mi] =
                                        [st |-> "writing", chunks |-> NoChunks]]
                         /\ Goto(w, "mcreating")
                         /\ UNCHANGED << idx, bcount >>
    /\ UNCHANGED << callvars, params, ci, m_list, pickleRun, completed, marker, svd, tmp,
                    spectrum, skipped, computed, interrupted, rawGen, failedAt >>

MCreateClose(w) ==
    /\ pc[w] = "mcreating"
    /\ LET mi == mpirange(MMax + 1, w)[idx[w]]
       IN  mfile' = [mfile EXCEPT ![mi].st = "complete"]
    /\ idx' = [idx EXCEPT ![w] = @ + 1]
    /\ Goto(w, "mcreate")
    /\ UNCHANGED << callvars, params, ci, bcount, m_list, pickleRun, completed, marker,
                    svd, tmp, spectrum, skipped, computed, interrupted, rawGen,
                    failedAt >>

\* Chunk loop: compute the local transfer matrices and enter
\* mpiutil.transpose_blocks (an all-to-all), or leave the loop for the barrier.
ChunkStart(w) ==
    /\ pc[w] = "chunk"
    /\ Arrive(w)
    /\ IF ci[w] > NumChunks
       THEN Goto(w, "B_mfiles")
       ELSE Goto(w, "T_chunk")
    /\ UNCHANGED << callvars, params, shared, idx, ci, m_list, skipped, computed,
                    interrupted, rawGen, failedAt >>

\* Write the current chunk into the local m-files (range(sm, em) of
\* split_local): h5py.File(_mfile(mi), "r+") raises when it cannot open.
MWrite(w) ==
    /\ pc[w] = "mwrite"
    /\ LET lst == split_local(MMax + 1, w)
       IN  IF idx[w] > Len(lst)
           THEN /\ ci' = [ci EXCEPT ![w] = @ + 1]
                /\ Goto(w, "chunk")
                /\ UNCHANGED << mfile, failedAt >>
           ELSE LET mi == lst[idx[w]]
                IN  IF mfile[mi].st = "complete"
                    THEN /\ mfile' = [mfile EXCEPT ![mi].st = "writing"]
                         /\ Goto(w, "mwriting")
                         /\ UNCHANGED << ci, failedAt >>
                    ELSE /\ Raise(w, "mfile")
                         /\ UNCHANGED << mfile, ci >>
    /\ UNCHANGED << callvars, params, idx, bcount, m_list, pickleRun, completed, marker,
                    svd, tmp, spectrum, skipped, computed, interrupted, rawGen >>

\* mfile["beam_m"][fi, :, bi] = ... for every (fi, bi) of the chunk, and the
\* file is closed at the end of the with block.
MWriteClose(w) ==
    /\ pc[w] = "mwriting"
    /\ LET mi == split_local(MMax + 1, w)[idx[w]]
       IN  mfile' = [mfile EXCEPT ![mi] =
                        [st |-> "complete",
                         chunks |-> [mfile[mi].chunks EXCEPT ![ci[w]] = runId]]]
    /\ idx' = [idx EXCEPT ![w] = @ + 1]
    /\ Goto(w, "mwrite")
    /\ UNCHANGED << callvars, params, ci, bcount, m_list, pickleRun, completed, marker,
                    svd, tmp, spectrum, skipped, computed, interrupted, rawGen,
                    failedAt >>

\* After the last barrier of _generate_mfiles rank 0 creates the sentinel.
WriteCompleted(w) ==
    /\ pc[w] = "sentinel"
    /\ rank0(w)
    /\ completed' = TRUE
    /\ Goto(w, "svdstart")
    /\ UNCHANGED << callvars, params, idx, ci, bcount, m_list, pickleRun, marker, mfile,
                    svd, tmp, spectrum, skipped, computed, interrupted, rawGen,
                    failedAt >>

\* ---------------------------------------------------- _generate_svdfiles
\* generate(): "if not skip_svd: self._generate_svdfiles(regen, skip_svd_inv)".
\* BeamTransferTempSVD and BeamTransferFullSVD define
\* _generate_svdfiles(self, regen=False): the call raises TypeError.
SvdStart(w) ==
    /\ pc[w] = "svdstart"
    /\ IF skip_svd
       THEN /\ Arrive(w)
            /\ Goto(w, "B_final")
            /\ UNCHANGED << idx, failedAt >>
       ELSE CASE variant = "TempSVD" ->
                 /\ Raise(w, "TypeError")
                 /\ UNCHANGED << idx, bcount >>
              [] variant = "FreqDiag" ->
                 /\ Goto(w, "svdloop")
                 /\ idx' = [idx EXCEPT ![w] = 1]
                 /\ UNCHANGED << bcount, failedAt >>
              [] variant = "FullFreq" ->
                 /\ Goto(w, IF rank0(w) THEN "filter" ELSE "bcast")
                 /\ UNCHANGED << idx, bcount, failedAt >>
    /\ UNCHANGED << callvars, params, shared, ci, m_list, skipped, computed, interrupted,
                    rawGen >>

\* Mutant: the force flag is read the wrong way round.
SvdFileExistsSkip_Inverted(mi) == Exists(svd[mi]) /\ regen

\* Mutant: the force flag is ignored.
SvdFileExistsSkip_NoRegen(mi) == Exists(svd[mi])

\* BeamTransfer._generate_svdfiles: the per-mode test that skips a mode.
SvdFileExistsSkip(mi) == Exists(svd[mi]) /\ ~regen

\* BeamTransfer._generate_svdfiles, loop over mpirange(mmax + 1): skip the
\* mode, or open the m-file for reading and h5py.File(_svdfile(mi), "w").
SvdLoop(w) ==
    /\ pc[w] = "svdloop"
    /\ LET lst == mpirange(MMax + 1, w)
       IN  IF idx[w] > Len(lst)
           THEN /\ Arrive(w)
                /\ Goto(w, "B_svd")
                /\ UNCHANGED << idx, svd, skipped, computed, interrupted,
                                failedAt >>
           ELSE LET mi == lst[idx[w]]
                IN  IF SvdFileExistsSkip(mi)
                    THEN /\ skipped' = skipped \cup {mi}
                         /\ idx' = [idx EXCEPT ![w] = @ + 1]
                         /\ UNCHANGED << pc, bcount, svd, computed,
                                         interrupted, failedAt >>
                    ELSE IF mfile[mi].st # "complete"
                    THEN /\ Raise(w, "mfile")
                         /\ UNCHANGED << idx, bcount, svd, skipped, computed,
                                         interrupted >>
                    ELSE /\ svd' = [svd EXCEPT ![mi] =
                                      [st |-> "writing", run |-> runId]]
                         /\ computed' = computed \cup {mi}
                         /\ Goto(w, "svdwriting")
                         /\ UNCHANGED << idx, bcount, skipped, interrupted,
                                         failedAt >>
    /\ UNCHANGED << callvars, params, ci, m_list, pickleRun, completed, marker, mfile,
                    tmp, spectrum, rawGen >>

\* All frequencies done: attributes written, fs.close().
SvdClose(w) ==
    /\ pc[w] = "svdwriting"
    /\ LET mi == mpirange(MMax + 1, w)[idx[w]]
       IN  /\ svd' = [svd EXCEPT ![mi].st = "complete"]
           /\ interrupted' = interrupted \ {mi}
    /\ idx' = [idx EXCEPT ![w] = @ + 1]
    /\ Goto(w, "svdloop")
    /\ UNCHANGED << callvars, params, ci, bcount, m_list, pickleRun, completed, marker,
                    mfile, tmp, spectrum, skipped, computed, rawGen, failedAt >>

\* Mutant: the force flag is read the wrong way round.
SvdFileComplete_Inverted(mi) ==
    Exists(svd[mi]) /\ regen /\ Openable(svd[mi])

\* BeamTransferFullFreq._generate_svdfiles, rank 0: is the mode already done?
SvdFileComplete(mi) ==
    Exists(svd[mi]) /\ ~regen /\ Openable(svd[mi])

\* The reduced m_list: m_list[m_list != -1].
FilterList == SelectSeq(RangeSeq(MMax + 1), LAMBDA mi : ~SvdFileComplete(mi))

\* Rank 0 checks every mode, broadcasts the reduced list, enters the barrier.
Filter(w) ==
    /\ pc[w] = "filter"
    /\ m_list' = FilterList
    /\ skipped' = {mi \in Modes : SvdFileComplete(mi)}
    /\ Arrive(w)
    /\ Goto(w, "B_filter")
    /\ UNCHANGED << callvars, params, shared, idx, ci, computed, interrupted, rawGen,
                    failedAt >>

\* The other ranks receive the list (mpiutil.bcast), then enter the barrier.
BcastRecv(w) ==
    /\ pc[w] = "bcast"
    /\ bcount[0] > bcount[w]
    /\ Arrive(w)
    /\ Goto(w, "B_filter")
    /\ UNCHANGED << callvars, params, shared, idx, ci, m_list, skipped, computed,
                    interrupted, rawGen, failedAt >>

\* Loop over partition_list_mpi(m_list); _generate_svdfile_m(mi) reads the
\* m-file, then misc.lock_file gives the temporary name, opened with "w".
FFLoop(w) ==
    /\ pc[w] = "ffloop"
    /\ LET lst == partition_list_mpi(m_list, w)
       IN  IF idx[w] > Len(lst)
           THEN /\ Arrive(w)
                /\ Goto(w, "B_svd")
                /\ UNCHANGED << tmp, computed, failedAt >>
           ELSE LET mi == lst[idx[w]]
                IN  IF mfile[mi].st # "complete"
                    THEN /\ Raise(w, "mfile")
                         /\ UNCHANGED << bcount, tmp, computed >>
                    ELSE /\ tmp' = [tmp EXCEPT ![mi] = "writing"]
                         /\ computed' = computed \cup {mi}
                         /\ Goto(w, "ffwriting")
                         /\ UNCHANGED << bcount, failedAt >>
    /\ UNCHANGED << callvars, params, idx, ci, m_list, pickleRun, completed, marker,
                    mfile, svd, spectrum, skipped, interrupted, rawGen >>

\* End of "with h5py.File(fs_lock, "w") as fs": the temporary is closed.
FFClose(w) ==
    /\ pc[w] = "ffwriting"
    /\ LET mi == partition_list_mpi(m_list, w)[idx[w]]
       IN  tmp' = [tmp EXCEPT ![mi] = "complete"]
    /\ Goto(w, "ffrename")
    /\ UNCHANGED << callvars, params, idx, ci, bcount, m_list, pickleRun, completed,
                    marker, mfile, svd, spectrum, skipped, computed,
                    interrupted, rawGen, failedAt >>

\* End of "with misc.lock_file(...)" without exception: the temporary is
\* renamed to the final name.
FFRename(w) ==
    /\ pc[w] = "ffrename"
    /\ LET mi == partition_list_mpi(m_list, w)[idx[w]]
       IN  /\ svd' = [svd EXCEPT ![mi] = [st |-> tmp[mi], run |-> runId]]
           /\ tmp' = [tmp EXCEPT ![mi] = "absent"]
           /\ interrupted' = interrupted \ {mi}
    /\ idx' = [idx EXCEPT ![w] = @ + 1]
    /\ Goto(w, "ffloop")
    /\ UNCHANGED << callvars, params, ci, bcount, m_list, pickleRun, completed, marker,
                    mfile, spectrum, skipped, computed, rawGen, failedAt >>

\* A decomposition or the pseudo-inverse raises inside the compression of
\* the mode.  FreqDiag: the file under the final name stays as it is at that
\* moment.  FullFreq: h5py closes the temporary, lock_file(preserve=True)
\* keeps it and does not rename.
ComputeFail(w) ==
    /\ pc[w] \in {"svdwriting", "ffwriting"}
    /\ IF pc[w] = "svdwriting"
       THEN LET mi == mpirange(MMax + 1, w)[idx[w]]
            IN  /\ \E st \in {"broken", "truncated"} :
                      svd' = [svd EXCEPT ![mi].st = st]
                /\ interrupted' = interrupted \cup {mi}
                /\ UNCHANGED tmp
       ELSE LET mi == partition_list_mpi(m_list, w)[idx[w]]
            IN  /\ tmp' = [tmp EXCEPT ![mi] = "truncated"]
                /\ interrupted' = interrupted \cup {mi}
                /\ UNCHANGED svd
    /\ Raise(w, "LinAlgError")
    /\ UNCHANGED << callvars, params, idx, ci, bcount, m_list, pickleRun, completed,
                    marker, mfile, spectrum, skipped, computed, rawGen >>

\* ------------------------------------------------- _collect_svd_spectrum
\* kltransform.collect_m_array: every rank reads beam_singularvalues(mi) of
\* its share of range(mmax + 1), the results are gathered on rank 0.
CollectRead(w) ==
    /\ pc[w] = "collect"
    /\ LET lst == partition_list_mpi(RangeSeq(MMax + 1), w)
       IN  IF \A i \in 1..Len(lst) : Openable(svd[lst[i]])
           THEN /\ Arrive(w)
                /\ Goto(w, "B_collect")
                /\ UNCHANGED failedAt
           ELSE /\ Raise(w, "svdfile")
                /\ UNCHANGED bcount
    /\ UNCHANGED << callvars, params, shared, idx, ci, m_list, skipped, computed,
                    interrupted, rawGen >>

\* What the gathered array holds: per mode, the artifact it was read from.
SpectrumContent == [mi \in Modes |-> svd[mi].run]

\* Rank 0 writes svdspectrum.hdf5 ("w"); then the closing barrier.
WriteSpectrum(w) ==
    /\ pc[w] = "spectrum"
    /\ spectrum' = IF rank0(w)
                   THEN [run |-> runId, content |-> SpectrumContent]
                   ELSE spectrum
    /\ Arrive(w)
    /\ Goto(w, "B_spec")
    /\ UNCHANGED << callvars, params, idx, ci, m_list, pickleRun, completed, marker,
                    mfile, svd, tmp, skipped, computed, interrupted, rawGen,
                    failedAt >>

\* End of _generate_svdfiles; FullFreq: every rank opens the marker file in
\* append mode and closes it.  Then the last barrier of generate().
EndSvd(w) ==
    /\ pc[w] = "endsvd"
    /\ marker' = IF variant = "FullFreq" THEN TRUE ELSE marker
    /\ Arrive(w)
    /\ Goto(w, "B_final")
    /\ UNCHANGED << callvars, params, idx, ci, m_list, pickleRun, completed, mfile, svd,
                    tmp, spectrum, skipped, computed, interrupted, rawGen,
                    failedAt >>

\* ------------------------------------------------------------ collectives
\* Where rank w continues after the collective it waits in; the blocks under
\* "if mpiutil.rank0:" are steps of rank 0 only.
AfterBarrier(p, w) ==
    CASE p = "B_dirs"    -> IF rank0(w) THEN "pickle" ELSE "mcheck"
      [] p = "B_mcreate" -> "chunk"
      [] p = "T_chunk"   -> "mwrite"
      [] p = "B_mfiles"  -> IF rank0(w) THEN "sentinel" ELSE "svdstart"
      [] p = "B_filter"  -> "ffloop"
      [] p = "B_svd"     -> "collect"
      [] p = "B_collect" -> "spectrum"
      [] p = "B_spec"    -> "endsvd"
      [] p = "B_final"   -> "done"

BarrierNames == {"B_dirs", "B_mcreate", "T_chunk", "B_mfiles", "B_filter",
                 "B_svd", "B_collect", "B_spec", "B_final"}

\* mpiutil.barrier() (and transpose_blocks) returns on rank w once every rank
\* has entered it.
PassBarrier(w) ==
    /\ pc[w] \in BarrierNames
    /\ Released(w)
    /\ Goto(w, AfterBarrier(pc[w], w))
    /\ idx' = [idx EXCEPT ![w] = 1]
    /\ UNCHANGED << callvars, params, shared, ci, bcount, m_list, skipped, computed,
                    interrupted, rawGen, failedAt >>

\* ------------------------------------------------------------------ crash
\* The files rank w has open for writing, by its position.
OpenMFile(w) ==
    CASE pc[w] = "mcreating" -> {mpirange(MMax + 1, w)[idx[w]]}
      [] pc[w] = "mwriting"  -> {split_local(MMax + 1, w)[idx[w]]}
      [] OTHER -> {}

OpenSvd(w) ==
    IF pc[w] = "svdwriting" THEN {mpirange(MMax + 1, w)[idx[w]]} ELSE {}

OpenTmp(w) ==
    IF pc[w] = "ffwriting"
    THEN {partition_list_mpi(m_list, w)[idx[w]]} ELSE {}

\* The temporary rank w has closed and not yet renamed.
PendingRename(w) ==
    IF pc[w] = "ffrename"
    THEN {partition_list_mpi(m_list, w)[idx[w]]} ELSE {}

\* The job is killed (crash, scheduler kill, MPI abort): every rank still
\* running dies at the same time.  A file a rank was writing is left
\* unopenable or openable-but-incomplete; nothing is renamed or removed.
Running == {w \in Active : pc[w] \notin Terminal}

Crash ==
    /\ Running # {}
    /\ \E st \in [Running -> {"broken", "truncated"}] :
        /\ \A w \in Running :
              OpenMFile(w) \cup OpenSvd(w) \cup OpenTmp(w) = {}
                  => st[w] = "broken"
        /\ mfile' = [mi \in Modes |->
                        IF \E w \in Running : mi \in OpenMFile(w)
                        THEN LET w == CHOOSE v \in Running :
                                          mi \in OpenMFile(v)
                             IN [mfile[mi] EXCEPT
                                   !.st = IF st[w] = "broken" THEN "broken"
                                          ELSE "complete"]
                        ELSE mfile[mi]]
        /\ svd' = [mi \in Modes |->
                        IF \E w \in Running : mi \in OpenSvd(w)
                        THEN LET w == CHOOSE v \in Running :
                                          mi \in OpenSvd(v)
                             IN [svd[mi] EXCEPT !.st = st[w]]
                        ELSE svd[mi]]
        /\ tmp' = [mi \in Modes |->
                        IF \E w \in Running : mi \in OpenTmp(w)
                        THEN LET w == CHOOSE v \in Running :
                                          mi \in OpenTmp(v)
                             IN st[w]
                        ELSE tmp[mi]]
    /\ interrupted' = interrupted \cup
            UNION {OpenSvd(w) \cup OpenTmp(w) \cup PendingRename(w) :
                   w \in Running}
    /\ pc' = [w \in Workers |-> IF w \in Running THEN "crashed" ELSE pc[w]]
    /\ UNCHANGED << callvars, params, idx, ci, bcount, m_list, pickleRun, completed,
                    marker, spectrum, skipped, computed, rawGen, failedAt >>

\* ------------------------------------------------------------------- Next
Next ==
    \/ \E v \in Variants, r \in BOOLEAN, s \in BOOLEAN : StartRun(v, r, s)
    \/ \E w \in Workers : GenerateDirs(w)
    \/ \E w \in Workers : SavePickle(w)
    \/ \E w \in Workers : MCheck(w)
    \/ \E w \in Workers : MCreate(w)
    \/ \E w \in Workers : MCreateClose(w)
    \/ \E w \in Workers : ChunkStart(w)
    \/ \E w \in Workers : MWrite(w)
    \/ \E w \in Workers : MWriteClose(w)
    \/ \E w \in Workers : WriteCompleted(w)
    \/ \E w \in Workers : SvdStart(w)
    \/ \E w \in Workers : SvdLoop(w)
    \/ \E w \in Workers : SvdClose(w)
    \/ \E w \in Workers : Filter(w)
    \/ \E w \in Workers : BcastRecv(w)
    \/ \E w \in Workers : FFLoop(w)
    \/ \E w \in Workers : FFClose(w)
    \/ \E w \in Workers : FFRename(w)
    \/ \E w \in Workers : ComputeFail(w)
    \/ \E w \in Workers : CollectRead(w)
    \/ \E w \in Workers : WriteSpectrum(w)
    \/ \E w \in Workers : EndSvd(w)
    \/ \E w \in Workers : PassBarrier(w)
    \/ Crash

Spec == Init /\ [][Next]_vars

\* ---------------------------------------------------------- decompositions
\* The decompositions of one frequency block of one mode.  la.svd either
\* returns or raises LinAlgError; la.qr is a direct method and returns.
\* BeamTransfer and BeamTransferFullFreq: matrix_image (SVD1),
\* matrix_nullspace (SVD2), matrix_image (SVD3).
StagedFn == << "matrix_image", "matrix_nullspace", "matrix_image" >>

BlockStart(k) ==
    /\ dpc = "idle"
    /\ k = "staged" => dnpol > 1
    /\ dkind' = k
    /\ dpc' = "next"
    /\ UNCHANGED << gen, acc, cut, aux, dsetup, dfn, nsvd, nfail, regularised, dlog, stages >>

\* "if self.telescope.num_pol_sky == 1": SVD1 and SVD2 are not computed,
\* bf2 is the whitened block and ut2 the identity.  BeamTransferFullFreq
\* builds that identity from bt.ntel, and no name bt is bound there.
BlockStartUnpolarised ==
    /\ dpc = "idle"
    /\ dnpol = 1
    /\ dkind' = "staged"
    /\ IF dclass = "BeamTransferFullFreq"
       THEN dpc' = "NameError" /\ UNCHANGED stages
       ELSE dpc' = "next" /\ stages' = << "skipped", "skipped" >>
    /\ UNCHANGED << gen, acc, cut, aux, dsetup, dfn, nsvd, nfail, regularised, dlog >>

\* The call returns factors that come from `how`.
DecReturn(how) ==
    /\ stages' = Append(stages, how)
    /\ dpc' = IF dkind = "single" \/ Len(stages) + 1 = Len(StagedFn)
              THEN "end" ELSE "next"

\* The next call of the block.  matrix_image and matrix_nullspace return
\* empty arrays at once when A.shape[0] == 0, which only the input of SVD2
\* (the image found by SVD1) can be.
DecCall(empty) ==
    /\ dpc = "next"
    /\ empty => (dkind = "staged" /\ Len(stages) = 1)
    /\ ~(dkind = "staged" /\ Len(stages) = 2 /\ stages[2] = "empty")
    /\ dfn' = IF dkind = "single" THEN "svd_gen"
              ELSE StagedFn[Len(stages) + 1]
    /\ nsvd' = 0
    /\ nfail' = 0
    /\ regularised' = FALSE
    /\ dlog' = << >>
    /\ IF empty
       THEN DecReturn("empty")
       ELSE dpc' = "svd1" /\ UNCHANGED stages
    /\ UNCHANGED << gen, acc, cut, aux, dsetup, dkind >>

\* "if bf2.shape[0] > 0 and (... (s1 > 0.0).any())" is false: the block is
\* left blank and SVD3 is not computed.
BlockBlank ==
    /\ dpc = "next"
    /\ dkind = "staged" /\ Len(stages) = 2
    /\ dnpol > 1
    /\ dpc' = "end"
    /\ UNCHANGED << gen, acc, cut, aux, dsetup, dkind, dfn, nsvd, nfail, regularised, dlog, stages >>

\* The first la.svd(A) of the call.
DecSvd1 ==
    /\ dpc = "svd1"
    /\ nsvd' = nsvd + 1
    /\ \E ok \in BOOLEAN :
          IF ok
          THEN /\ DecReturn("svd")
               /\ UNCHANGED << nfail, dlog >>
          ELSE /\ nfail' = nfail + 1
               /\ IF dfn = "svd_gen"
                  THEN dpc' = "svdvals" /\ UNCHANGED dlog
                  ELSE /\ dpc' = "qr"
                       /\ dlog' = Append(dlog, "SVD1 not converged")
               /\ UNCHANGED stages
    /\ UNCHANGED << gen, acc, cut, aux, dsetup, dkind, dfn, regularised >>

\* svd_gen, in the except block: sv = la.svdvals(A)[0], which raises out of
\* svd_gen when it does not converge either; At = A + sv * 1e-10 * eye.
DecSvdvals ==
    /\ dpc = "svdvals"
    /\ \E ok \in BOOLEAN :
          IF ok
          THEN dpc' = "svd2" /\ regularised' = TRUE
          ELSE dpc' = "raised" /\ UNCHANGED regularised
    /\ UNCHANGED << gen, acc, cut, aux, dsetup, dkind, dfn, nsvd, nfail, dlog, stages >>

\* matrix_image, matrix_nullspace, in the except block:
\* q, r, p = la.qr(A, pivoting=True); the next la.svd gets q^H A.
DecQr ==
    /\ dpc = "qr"
    /\ dpc' = "svd2"
    /\ UNCHANGED << gen, acc, cut, aux, dsetup, dkind, dfn, nsvd, nfail, regularised, dlog, stages >>

\* The second la.svd of the call.  svd_gen: prints and re-raises, or prints
\* that it regularised and returns.  matrix_image, matrix_nullspace: return
\* q u, or print and return q with |diag r| as the spectrum.
DecSvd2 ==
    /\ dpc = "svd2"
    /\ nsvd' = nsvd + 1
    /\ \E ok \in BOOLEAN :
          IF dfn = "svd_gen"
          THEN IF ok
               THEN /\ dlog' = Append(dlog, "did not converge. Regularised.")
                    /\ DecReturn("regularised")
                    /\ UNCHANGED nfail
               ELSE /\ dlog' = Append(dlog, "Failed completely.")
                    /\ nfail' = nfail + 1
                    /\ dpc' = "raised"
                    /\ UNCHANGED stages
          ELSE IF ok
               THEN /\ DecReturn("qr_svd")
                    /\ UNCHANGED << nfail, dlog >>
               ELSE /\ dlog' = Append(dlog, "SVD2 not converged")
                    /\ nfail' = nfail + 1
                    /\ DecReturn("qr")
    /\ UNCHANGED << gen, acc, cut, aux, dsetup, dkind, dfn, regularised >>

\* "if not skip_svd_inv: ibeam = la.pinv(beam)" after SVD3 of the block.
\* BeamTransfer calls it bare; BeamTransferFullFreq catches LinAlgError and
\* goes on to la.pinv2.
Pinv ==
    /\ dpc = "end"
    /\ dkind = "staged" /\ Len(stages) = Len(StagedFn)
    /\ pinv = NoPinv
    /\ \E ok \in BOOLEAN :
          pinv' = [n |-> 1,
                   out |-> IF ok THEN "written"
                           ELSE IF dclass = "BeamTransferFullFreq"
                                THEN "pinv failure" ELSE "LinAlgError"]
    /\ UNCHANGED << gen, dec, acc, cut, mcall, inv >>

\* BeamTransferFullFreq: ibeam = la.pinv2(beam); success sets the file
\* attribute inv_bsvd_from_pinv2, any failure is re-raised as Exception.
Pinv2 ==
    /\ pinv.out = "pinv failure"
    /\ \E ok \in BOOLEAN :
          pinv' = [n |-> 2, out |-> IF ok THEN "written, flagged" ELSE "Exception"]
    /\ UNCHANGED << gen, dec, acc, cut, mcall, inv >>

NextDecomp ==
    \/ Pinv
    \/ Pinv2
    \/ \E k \in {"staged", "single"} : BlockStart(k)
    \/ BlockStartUnpolarised
    \/ \E empty \in BOOLEAN : DecCall(empty)
    \/ BlockBlank
    \/ DecSvd1
    \/ DecSvdvals
    \/ DecQr
    \/ DecSvd2

DecClasses == {"BeamTransfer", "BeamTransferFullFreq"}

InitDecomp ==
    /\ AccIdle
    /\ CutIdle
    /\ AuxIdle
    /\ GenInit
    /\ size = 1
    /\ dkind = ""
    /\ dfn = ""
    /\ dpc = "idle"
    /\ nsvd = 0
    /\ nfail = 0
    /\ regularised = FALSE
    /\ dlog = << >>
    /\ stages = << >>
    /\ dclass \in DecClasses
    /\ dnpol \in 1..NPolMax

SpecDecomp == InitDecomp /\ [][NextDecomp]_vars

\* ---------------------------------------------------------------- readers
\* beam_svd, invbeam_svd, beam_ut, beam_singularvalues of BeamTransfer and of
\* BeamTransferFullFreq, called by a process that runs between the jobs.
Acc == {"beam_svd", "invbeam_svd", "beam_ut", "beam_singularvalues"}
ReadClasses == {"BeamTransfer", "BeamTransferFullFreq"}
FiArgs == {None} \cup (0..(NFreq - 1))

\* util.cache_last: the call is answered from the cache when its arguments
\* are those of the last call that returned.
CacheHit(key) == cache.key = key

\* Mutant: the full-frequency accessors serve a frequency index.
FiRejected_Never(cls, fi) == FALSE

\* BeamTransferFullFreq.beam_svd, invbeam_svd, beam_ut:
\* "if fi is None: ... else: raise Exception(...)".
FiRejected(cls, fi) ==
    cls = "BeamTransferFullFreq" /\ racc # "beam_singularvalues" /\ fi # None

\* Mutant: a file that cannot be opened reads as data.
BodyOutcomes_NoOpenError(mi, fi) ==
    IF FiRejected(rclass, fi) THEN {"Exception"} ELSE {"data"}

\* The outcomes of the accessor's body for mode mi: h5py.File(..., "r")
\* raises OSError when the file is not there or cannot be opened; an opened
\* file that lacks the dataset gives KeyError.
BodyOutcomes(mi, fi) ==
    IF ~Openable(svd[mi]) THEN {"OSError"}
    ELSE IF FiRejected(rclass, fi) THEN {"Exception"}
    ELSE IF svd[mi].st = "truncated" THEN {"KeyError", "data"}
    ELSE {"data"}

Read(mi, fi) ==
    /\ runId > 0
    /\ \A w \in Workers : pc[w] \in Terminal
    /\ racc = "beam_singularvalues" => fi = None
    /\ LET key == << mi, fi >>
       IN  IF CacheHit(key)
           THEN /\ lastRead' = [mi |-> mi, fi |-> fi, out |-> "data",
                                val |-> cache.val, hit |-> TRUE,
                                st0 |-> svd[mi].st]
                /\ UNCHANGED cache
           ELSE \E o \in BodyOutcomes(mi, fi) :
                /\ lastRead' = [mi |-> mi, fi |-> fi, out |-> o,
                                val |-> IF o = "data" THEN svd[mi].run ELSE 0,
                                hit |-> FALSE, st0 |-> svd[mi].st]
                /\ cache' = IF o = "data"
                            THEN [key |-> key, val |-> svd[mi].run]
                            ELSE cache
    /\ UNCHANGED << gen, dec, cut, aux, rclass, racc >>

\* A single-process job (mpiutil.size = 1) and a reader of its directory.
NextRead ==
    \/ \E v \in Variants, r \in BOOLEAN, s \in BOOLEAN : StartRun(v, r, s)
    \/ \E w \in Workers : GenerateDirs(w)
    \/ \E w \in Workers : SavePickle(w)
    \/ \E w \in Workers : MCheck(w)
    \/ \E w \in Workers : MCreate(w)
    \/ \E w \in Workers : MCreateClose(w)
    \/ \E w \in Workers : ChunkStart(w)
    \/ \E w \in Workers : MWrite(w)
    \/ \E w \in Workers : MWriteClose(w)
    \/ \E w \in Workers : WriteCompleted(w)
    \/ \E w \in Workers : SvdStart(w)
    \/ \E w \in Workers : SvdLoop(w)
    \/ \E w \in Workers : SvdClose(w)
    \/ \E w \in Workers : Filter(w)
    \/ \E w \in Workers : FFLoop(w)
    \/ \E w \in Workers : FFClose(w)
    \/ \E w \in Workers : FFRename(w)
    \/ \E w \in Workers : ComputeFail(w)
    \/ \E w \in Workers : CollectRead(w)
    \/ \E w \in Workers : WriteSpectrum(w)
    \/ \E w \in Workers : EndSvd(w)
    \/ \E w \in Workers : PassBarrier(w)
    \/ Crash
    \/ \E mi \in Modes, fi \in FiArgs : Read(mi, fi)

InitRead ==
    /\ DecIdle
    /\ CutIdle
    /\ AuxIdle
    /\ GenInit
    /\ size = 1
    /\ rclass \in ReadClasses
    /\ racc \in Acc
    /\ cache = NoCache
    /\ lastRead = NoRead

SpecRead == InitRead /\ [][NextRead]_vars

\* ---------------------------------------------------------------------
\* The significance cutoff: what the compression writes into
\* "singularvalues", and what _svd_num, ndof and the vector projections
\* make of it.

Max(a, b) == IF a > b THEN a ELSE b

\* The spectrum la.svd returns for a matrix with n singular values:
\* non-negative and in non-increasing order.
Spectra(n) ==
    {s \in [1..n -> 0..MaxSv] : \A i \in 1..(n - 1) : s[i] >= s[i + 1]}

ImageCut_All(s) == Len(s)

\* matrix_image(bft, rtol=0.0): the number of columns of the image kept.
ImageCut(s) ==
    IF Len(s) = 0 THEN 0
    ELSE Cardinality({i \in 1..Len(s) : s[i] > s[1] * 0})

\* dset_sig[fi, :nmodes] = sig, with sig = s3[:nmodes].
Assign(base, nmodes, s) ==
    [k \in Slots |-> IF k \in (base + 1)..(base + nmodes)
                     THEN s[k - base] ELSE sv[k]]

\* One pass of the frequency loop of BeamTransfer._generate_svdfiles: the
\* third decomposition yields the spectrum s3 of a matrix with at most
\* min(ntel, lmax + 1) singular values; an empty null space, or an empty
\* image, leaves the datasets of this frequency blank.
WriteFreq ==
    /\ cclass = "BeamTransfer"
    /\ wfi < NFreq
    /\ \E n \in 0..svd_len : \E s3 \in Spectra(n) :
          LET nmodes == ImageCut(s3) IN
          /\ sv' = Assign(Slot(wfi, 0), nmodes, s3)
          /\ written' = written \cup {Slot(wfi, j) : j \in 1..nmodes}
    /\ wfi' = wfi + 1
    /\ UNCHANGED << gen, dec, acc, aux, cclass, ndofBy, svnum, svbounds, proj >>

\* BeamTransferFullFreq._generate_svdfiles: one decomposition across all
\* frequencies, at most nfreq * min(ntel, lmax + 1) singular values.
WriteFullFreq ==
    /\ cclass = "BeamTransferFullFreq"
    /\ wfi = 0
    /\ \E n \in 0..ndofmax : \E s3 \in Spectra(n) :
          LET nmodes == ImageCut(s3) IN
          /\ sv' = Assign(0, nmodes, s3)
          /\ written' = written \cup (1..nmodes)
    /\ wfi' = NFreq
    /\ UNCHANGED << gen, dec, acc, aux, cclass, ndofBy, svnum, svbounds, proj >>

SvMax == CHOOSE x \in 0..MaxSv :
            /\ \E k \in Slots : sv[k] = x
            /\ \A k \in Slots : sv[k] <= x

Live_AtLeast(c) == LET mx == SvMax IN {k \in Slots : sv[k] * CutDen >= mx * c}

Live_Reversed(c) == LET mx == SvMax IN {k \in Slots : sv[k] * CutDen < mx * c}

\* sv > sv.max() * self.svcut, with svcut = c / CutDen.
Live(c) == LET mx == SvMax IN {k \in Slots : sv[k] * CutDen > mx * c}

\* BeamTransfer._svd_num(mi)[0]: .sum(axis=1).
SvNum(c) ==
    LET live == Live(c) IN
    [fi \in Freqs |-> Cardinality({j \in 1..svd_len : Slot(fi, j) \in live})]

RECURSIVE CumSum(_, _)
CumSum(f, n) == IF n = 0 THEN 0 ELSE CumSum(f, n - 1) + f[n - 1]

CumSumOf_NoInsert(num) == [i \in 1..(NFreq + 1) |-> CumSum(num, Min(i, NFreq))]

\* np.cumsum(np.insert(svnum, 0, 0))
CumSumOf(num) == [i \in 1..(NFreq + 1) |-> CumSum(num, i - 1)]

\* BeamTransfer._svd_num(mi)[1]
SvBounds(c) == CumSumOf(SvNum(c))

\* BeamTransferFullFreq._svd_num(mi): .sum() over the whole dataset.
SvNumFullFreq(c) == Cardinality(Live(c))

\* ndof(mi) of the three classes.
NdofOf(cls, c) ==
    CASE cls = "BeamTransfer" -> SvBounds(c)[NFreq + 1]
      [] cls = "BeamTransferFullFreq" -> SvNumFullFreq(c)
      [] cls = "BeamTransferNoSVD" -> Ntel * NFreq

\* _svd_num(mi) as the class returns it: the counts and the block bounds, or
\* the one count of the full-frequency class.
SvdNumOf(cls, c) ==
    CASE cls = "BeamTransfer" ->
            LET num == SvNum(c) IN [num |-> num, bnd |-> CumSumOf(num)]
      [] cls = "BeamTransferFullFreq" ->
            [num |-> << SvNumFullFreq(c) >>, bnd |-> << >>]
      [] OTHER -> [num |-> << >>, bnd |-> << >>]

\* ndofmax of the three classes.
NdofMaxOf(cls) ==
    IF cls = "BeamTransferNoSVD" THEN Ntel * NFreq ELSE ndofmax

\* No call has been made on the closed file yet. A call changes nothing in
\* the file, so its outcome does not depend on the calls before it: each
\* projection is taken as the first call, and ndof is asked for two
\* cutoffs, the smaller one first.
FirstCall == proj = NoProj /\ \A c \in Cuts : ndofBy[c] = -1

Asked == {x \in Cuts : ndofBy[x] # -1}

\* ndof(mi) by an object whose svcut is c / CutDen, on the closed file;
\* BeamTransferNoSVD.ndof does not open the file.
Ndof(c) ==
    /\ wfi = NFreq \/ cclass = "BeamTransferNoSVD"
    /\ proj = NoProj
    /\ Cardinality(Asked) < 2
    /\ \A x \in Asked : x < c
    /\ LET r == SvdNumOf(cclass, c) IN
          /\ ndofBy' = [ndofBy EXCEPT ![c] =
                           CASE cclass = "BeamTransfer" -> r.bnd[NFreq + 1]
                             [] cclass = "BeamTransferFullFreq" -> r.num[1]
                             [] OTHER -> NdofOf(cclass, c)]
          /\ svnum' = r.num
          /\ svbounds' = r.bnd
    /\ UNCHANGED << gen, dec, acc, aux, cclass, wfi, sv, written, proj >>

\* _svd_freq_iter, from the counts num.
SvdFreqIter(num) == {fi \in Freqs : num[fi] > 0}

\* Length of the numpy slice v[a:b] of a vector of length n.
SliceLen(n, a, b) == Max(0, Min(n, b) - Min(n, a))

\* Frequencies at which np.dot(fbeam.T.conj(), lvec) has mismatched shapes,
\* lvec being svec[svbounds[fi] : svbounds[fi + 1]].
BadBlocks(num, bnd, n) ==
    {fi \in SvdFreqIter(num) : SliceLen(n, bnd[fi + 1], bnd[fi + 2]) # num[fi]}

\* Rows beam[fi, :svnum[fi], :] taken up to and including frequency last.
RowsUpTo(num, last) ==
    UNION {{Slot(fi, j) : j \in 1..num[fi]} :
              fi \in {f \in SvdFreqIter(num) : f <= last}}

MinOf(S) == CHOOSE x \in S : \A y \in S : x <= y

\* project_vector_svd_to_telescope(mi, svec) with len(svec) = n.
SvdToTelescope(cls, r, n) ==
    IF cls = "BeamTransferFullFreq"
    THEN LET k == r.num[1] IN
         [out |-> IF n # k THEN "ValueError" ELSE "data", used |-> 1..k]
    ELSE LET num == r.num
             bnd == r.bnd
             bad == BadBlocks(num, bnd, n) IN
         IF bad # {}
         THEN [out |-> "ValueError", used |-> RowsUpTo(num, MinOf(bad))]
         ELSE [out |-> "data", used |-> RowsUpTo(num, NFreq)]

\* project_vector_telescope_to_svd(mi, vec) with vec.shape = (rows, cols).
TelescopeToSvd(cls, r, rows, cols) ==
    IF cls = "BeamTransferFullFreq"
    THEN IF rows * cols # NFreq * Ntel
         THEN [out |-> "ValueError", used |-> {}]
         ELSE [out |-> "data", used |-> 1..r.num[1]]
    ELSE LET num == r.num
             iter == SvdFreqIter(num)
             over == {fi \in iter : fi >= rows} IN
         IF iter = {} THEN [out |-> "data", used |-> {}]
         ELSE IF cols # Ntel
         THEN [out |-> IF MinOf(iter) >= rows THEN "IndexError" ELSE "ValueError",
               used |-> RowsUpTo(num, MinOf(iter))]
         ELSE IF over # {}
              THEN [out |-> "IndexError", used |-> RowsUpTo(num, MinOf(over))]
              ELSE [out |-> "data", used |-> RowsUpTo(num, NFreq)]

\* The input is d entries longer than ndof(mi).
ProjectSvdToTelescope(c, d) ==
    /\ wfi = NFreq
    /\ cclass # "BeamTransferNoSVD"
    /\ FirstCall
    /\ LET r == SvdNumOf(cclass, c)
           n == d + (IF cclass = "BeamTransfer" THEN r.bnd[NFreq + 1] ELSE r.num[1])
           p == SvdToTelescope(cclass, r, n) IN
          /\ n >= 0
          /\ proj' = [op |-> "svd_to_telescope", cut |-> c, shape |-> << n >>,
                      out |-> p.out, used |-> p.used,
                      n |-> IF p.out = "data" THEN NFreq * Ntel ELSE -1]
          /\ svnum' = r.num
          /\ svbounds' = r.bnd
    /\ UNCHANGED << gen, dec, acc, aux, cclass, wfi, sv, written, ndofBy >>

ProjectTelescopeToSvd(c, rows, cols) ==
    /\ wfi = NFreq
    /\ cclass # "BeamTransferNoSVD"
    /\ FirstCall
    /\ LET r == SvdNumOf(cclass, c)
           p == TelescopeToSvd(cclass, r, rows, cols) IN
          /\ proj' = [op |-> "telescope_to_svd", cut |-> c, shape |-> << rows, cols >>,
                      out |-> p.out, used |-> p.used,
                      n |-> IF p.out # "data" THEN -1
                            ELSE IF cclass = "BeamTransfer" THEN r.bnd[NFreq + 1]
                            ELSE r.num[1]]
          /\ svnum' = r.num
          /\ svbounds' = r.bnd
    /\ UNCHANGED << gen, dec, acc, aux, cclass, wfi, sv, written, ndofBy >>

\* project_vector_sky_to_svd(mi, vec) with vec of the documented shape.
\* Both classes unpack "svnum, svbounds = self._svd_num(mi)";
\* BeamTransferFullFreq._svd_num returns one number, which cannot be
\* unpacked.
ProjectSkyToSvd(c) ==
    /\ wfi = NFreq
    /\ cclass # "BeamTransferNoSVD"
    /\ FirstCall
    /\ LET r == SvdNumOf(cclass, c) IN
          IF cclass = "BeamTransferFullFreq"
          THEN /\ proj' = [op |-> "sky_to_svd", cut |-> c, shape |-> << >>,
                           out |-> "TypeError", used |-> {}, n |-> -1]
               /\ UNCHANGED << svnum, svbounds >>
          ELSE /\ proj' = [op |-> "sky_to_svd", cut |-> c, shape |-> << >>,
                           out |-> "data", used |-> RowsUpTo(r.num, NFreq),
                           n |-> r.bnd[NFreq + 1]]
               /\ svnum' = r.num
               /\ svbounds' = r.bnd
    /\ UNCHANGED << gen, dec, acc, aux, cclass, wfi, sv, written, ndofBy >>

NextCut ==
    \/ \E c \in Cuts : ProjectSkyToSvd(c)
    \/ WriteFreq
    \/ WriteFullFreq
    \/ \E c \in Cuts : Ndof(c)
    \/ \E c \in Cuts : \E d \in -1..1 : ProjectSvdToTelescope(c, d)
    \/ \E c \in Cuts : \E rows \in (NFreq - 1)..(NFreq + 1) :
          \E cols \in (Ntel - 1)..(Ntel + 1) : ProjectTelescopeToSvd(c, rows, cols)

InitCut ==
    /\ DecIdle
    /\ AccIdle
    /\ AuxIdle
    /\ GenInit
    /\ size = 1
    /\ cclass \in CutClasses
    /\ wfi = 0
    /\ sv = [k \in Slots |-> 0]
    /\ written = {}
    /\ ndofBy = [c \in Cuts |-> -1]
    /\ svnum = << >>
    /\ svbounds = << >>
    /\ proj = NoProj

SpecCut == InitCut /\ [][NextCut]_vars

\* ---------------------------------------------------------------------
\* matrix_image and matrix_nullspace as functions of the spectrum of A.
\* A has rows x cols entries and min(rows, cols) singular values; rtol is
\* p / CutDen.

MatrixImageCut_AtLeast(s, p) ==
    Cardinality({i \in 1..Len(s) : s[i] * CutDen >= s[1] * p})

\* matrix_image: cut = (spectrum > spectrum[0] * rtol).sum(); the image
\* keeps the first cut columns of u.
MatrixImageCut(s, p) ==
    Cardinality({i \in 1..Len(s) : s[i] * CutDen > s[1] * p})

\* matrix_nullspace: cut = (spectrum >= spectrum[0] * rtol).sum(); the
\* null space keeps the columns of the square u from cut on.
NullspaceCut(s, p) ==
    Cardinality({i \in 1..Len(s) : s[i] * CutDen >= s[1] * p})

MatrixImage(rows, cols, s, p) ==
    /\ mcall' = IF rows = 0
                THEN [fn |-> "matrix_image", rows |-> 0, cols |-> cols,
                      s |-> << >>, rtol |-> p, cut |-> 0, dim |-> 0]
                ELSE [fn |-> "matrix_image", rows |-> rows, cols |-> cols,
                      s |-> s, rtol |-> p, cut |-> MatrixImageCut(s, p),
                      dim |-> MatrixImageCut(s, p)]
    /\ UNCHANGED << gen, dec, acc, cut, pinv, inv >>

MatrixNullspace(rows, cols, s, p) ==
    /\ mcall' = IF rows = 0
                THEN [fn |-> "matrix_nullspace", rows |-> 0, cols |-> cols,
                      s |-> << >>, rtol |-> p, cut |-> 0, dim |-> 0]
                ELSE [fn |-> "matrix_nullspace", rows |-> rows, cols |-> cols,
                      s |-> s, rtol |-> p, cut |-> NullspaceCut(s, p),
                      dim |-> rows - NullspaceCut(s, p)]
    /\ UNCHANGED << gen, dec, acc, cut, pinv, inv >>

NextMatrix ==
    \E rows \in 0..Ntel, cols \in 1..(NPolMax * Lside), p \in Cuts :
        \E s \in Spectra(Min(rows, cols)) :
            \/ MatrixImage(rows, cols, s, p)
            \/ MatrixNullspace(rows, cols, s, p)

InitMatrix ==
    /\ DecIdle
    /\ AccIdle
    /\ CutIdle
    /\ GenInit
    /\ size = 1
    /\ mcall = NoCall
    /\ pinv = NoPinv
    /\ InvIdle

SpecMatrix == InitMatrix /\ [][NextMatrix]_vars

\* ------------------------------------------- the datasets of the artifacts
\* Successive generate() calls on one directory, followed for what each
\* leaves in the SVD file of every mode.  No call is interrupted here, so a
\* file that exists can be opened.
GenClasses == {"BeamTransfer", "BeamTransferTempSVD", "BeamTransferFullFreq"}

\* generate(regen, skip_svd, skip_svd_inv) up to the call of
\* _generate_svdfiles(regen, skip_svd_inv), which the classes that define it
\* with regen only do not accept.
Generate(c, r, s, k) ==
    /\ vpc \in {"idle", "done", "failed"}
    /\ vruns < MaxRuns
    /\ vruns' = vruns + 1
    /\ vclass' = c
    /\ vregen' = r
    /\ vskip_svd' = s
    /\ skip_svd_inv' = k
    /\ vmi' = 0
    /\ vpc' = IF s THEN "done"
              ELSE IF c = "BeamTransferTempSVD" THEN "failed" ELSE "svd"
    /\ UNCHANGED << gen, dec, acc, cut, mcall, pinv, datasets >>

\* "if os.path.exists(self._svdfile(mi)) and not regen": the mode is skipped
\* (in BeamTransferFullFreq it is taken out of m_list).
SvdFileSkipped ==
    /\ vpc = "svd"
    /\ vmi <= MMax
    /\ datasets[vmi] # "absent" /\ ~vregen
    /\ vmi' = vmi + 1
    /\ UNCHANGED << gen, dec, acc, cut, mcall, pinv, vclass, vregen, vskip_svd,
                    skip_svd_inv, vruns, vpc, datasets >>

\* "if not skip_svd_inv: dset_ibsvd = fs.create_dataset("invbeam_svd", ...)"
InvDataset(k) == IF k THEN "without" ELSE "with"

\* The file of the mode is opened with "w" and written.
SvdFileWritten ==
    /\ vpc = "svd"
    /\ vmi <= MMax
    /\ ~(datasets[vmi] # "absent" /\ ~vregen)
    /\ datasets' = [datasets EXCEPT ![vmi] = InvDataset(skip_svd_inv)]
    /\ vmi' = vmi + 1
    /\ UNCHANGED << gen, dec, acc, cut, mcall, pinv, vclass, vregen, vskip_svd,
                    skip_svd_inv, vruns, vpc >>

\* The loop over the modes is over and generate() returns.
GenerateReturns ==
    /\ vpc = "svd"
    /\ vmi = MMax + 1
    /\ vpc' = "done"
    /\ UNCHANGED << gen, dec, acc, cut, mcall, pinv, vclass, vregen, vskip_svd,
                    skip_svd_inv, vruns, vmi, datasets >>

NextInv ==
    \/ \E c \in GenClasses, r \in BOOLEAN, s \in BOOLEAN, k \in BOOLEAN :
          Generate(c, r, s, k)
    \/ SvdFileSkipped
    \/ SvdFileWritten
    \/ GenerateReturns

InitInv ==
    /\ DecIdle
    /\ AccIdle
    /\ CutIdle
    /\ GenInit
    /\ size = 1
    /\ AuxIdle

SpecInv == InitInv /\ [][NextInv]_vars

\* One step of rank w inside generate(): every rank is a running process, so
\* a rank that can take a step eventually takes one.  Nothing forces the job
\* to be killed or a new job to be started.
Step(w) ==
    \/ GenerateDirs(w) \/ SavePickle(w) \/ MCheck(w) \/ MCreate(w)
    \/ MCreateClose(w) \/ ChunkStart(w) \/ MWrite(w) \/ MWriteClose(w)
    \/ WriteCompleted(w) \/ SvdStart(w) \/ SvdLoop(w) \/ SvdClose(w)
    \/ Filter(w) \/ BcastRecv(w) \/ FFLoop(w) \/ FFClose(w) \/ FFRename(w)
    \/ CollectRead(w) \/ WriteSpectrum(w) \/ EndSvd(w) \/ PassBarrier(w)

FairSpec == Init /\ [][Next]_vars /\ \A w \in Workers : WF_vars(Step(w))

\* =================================================================
\* Properties
\* =================================================================
AllDone == runId > 0 /\ \A w \in Active : pc[w] = "done"

Range(q) == {q[i] : i \in 1..Len(q)}

\* Positions inside the per-mode compression loop.
ComputePcs == {"svdloop", "svdwriting", "ffloop", "ffwriting", "ffrename"}

\* Positions of _collect_svd_spectrum.
AggregatePcs == {"collect", "B_collect", "spectrum", "B_spec"}

\* Did this run generate the raw operators (no early return)?
RawThisRun == runId > 0 /\ rawGen = runId

\* Collectives of generate() up to and including the barrier that ends
\* _generate_mfiles: _generate_dirs, the creation barrier, one transpose per
\* chunk, the final barrier.
RawEndBarrier == 1 + 1 + NumChunks + 1

\* Collectives up to and including the barrier after the compression loop.
PostComputeBarrier ==
    1 + (IF RawThisRun THEN NumChunks + 2 ELSE 0)
      + (IF variant = "FullFreq" THEN 1 ELSE 0) + 1

\* C1: after a crash during the write of mode mi's SVD artifact, the final
\* path of mi is absent or holds a completely written artifact, and the
\* temporary file is still there.
C1_CrashLeavesNoPartialArtifact ==
    \A mi \in interrupted :
        /\ svd[mi].st \in {"absent", "complete"}
        /\ tmp[mi] # "absent"

\* C2: a mode whose write was interrupted is not skipped by the next run
\* without the force flag, and no skipped mode has a half-written artifact.
C2_InterruptedModeRecomputed ==
    \A mi \in skipped :
        /\ mi \notin interrupted
        /\ svd[mi].st = "complete"

\* C3: without the force flag only modes whose artifact exists and opens are
\* taken out of the to-compute set: every skipped mode has an openable file.
C3_SkippedModesOpen ==
    \A mi \in skipped : Exists(svd[mi]) /\ Openable(svd[mi])

\* C4 (as stated): in a run without the force flag that follows a complete
\* run of the same variant, no file of the run directory is written.
C4_NoFileWritten ==
    (runId > 0 /\ lastComplete = variant /\ ~regen) =>
        /\ pickleRun # runId
        /\ spectrum.run # runId
        /\ mfile = mfile0
        /\ svd = svd0
        /\ tmp = tmp0
        /\ completed

\* C4 (amended): in such a run no raw operator, no SVD artifact and no
\* temporary is written, no compression runs and the sentinel stays; the
\* spectrum, when rewritten, has the content it had; the telescope pickle is
\* rewritten by rank 0.
C4_OnlyPickleAndSpectrumRewritten ==
    (runId > 0 /\ lastComplete = variant /\ ~regen) =>
        /\ mfile = mfile0
        /\ svd = svd0
        /\ tmp = tmp0
        /\ computed = {}
        /\ completed
        /\ rawGen # runId
        /\ spectrum.run = runId => spectrum.content = spectrum0.content
        /\ AllDone => pickleRun = runId /\ (~skip_svd => spectrum.run = runId)

C4_Witness ==
    /\ AllDone /\ lastComplete = variant /\ ~regen /\ size = 2
    /\ spectrum.run = runId /\ pickleRun = runId
    /\ \A mi \in Modes : svd[mi].st = "complete" /\ svd[mi].run = runId - 1

\* C5: without the force flag, a mode whose SVD artifact exists and opens at
\* the start of the run is not compressed and its artifact stays as it was.
C5_ExistingArtifactUntouched ==
    ~regen =>
        \A mi \in Modes :
            (Exists(svd0[mi]) /\ Openable(svd0[mi])) =>
                (svd[mi] = svd0[mi] /\ mi \notin computed)

C5_Witness ==
    /\ AllDone /\ ~regen /\ ~skip_svd /\ variant = "FullFreq"
    /\ \E mi \in Modes : Openable(svd0[mi]) /\ mi \in skipped
    /\ \E mi \in Modes : mi \in computed

\* C6: with the force flag no mode is skipped, the broadcast to-compute list
\* is all of 0..MMax, and once the ranks are through the raw step (the SVD
\* step) every raw operator (every SVD artifact) has been rewritten by this
\* run, whatever was on disk.
C6_ForceRecomputesAll ==
    (runId > 0 /\ regen) =>
        /\ skipped = {}
        /\ Len(m_list) > 0 => m_list = RangeSeq(MMax + 1)
        /\ (\A w \in Active : bcount[w] > RawEndBarrier) =>
              \A mi \in Modes :
                  /\ mfile[mi].st = "complete"
                  /\ \A c \in Chunks : mfile[mi].chunks[c] = runId
        /\ (\E w \in Active : pc[w] \in AggregatePcs \cup {"endsvd"}) =>
              \A mi \in Modes :
                  /\ mi \in computed
                  /\ svd[mi] = [st |-> "complete", run |-> runId]

C6_Witness ==
    /\ AllDone /\ regen /\ ~skip_svd /\ runId = 2
    /\ \A mi \in Modes : svd0[mi].st = "complete" /\ svd[mi].run = runId
    /\ mfile0[0].st = "complete" /\ mfile[0].chunks[1] = runId

\* C7: the spectrum file is written only when every rank has entered the
\* barrier after the compression loop and every mode has an SVD artifact;
\* while a rank is in _collect_svd_spectrum no rank is in the loop.
C7_SpectrumAfterCompute ==
    /\ (runId > 0 /\ spectrum.run = runId) =>
          /\ \A v \in Active : bcount[v] >= PostComputeBarrier
          /\ \A v \in Active : pc[v] \notin ComputePcs
          /\ \A mi \in Modes : Exists(svd[mi])
    /\ (\E w \in Active : pc[w] \in AggregatePcs) =>
          /\ \A v \in Active : bcount[v] >= PostComputeBarrier
          /\ \A v \in Active : pc[v] \notin ComputePcs

C7_Witness ==
    /\ runId > 0 /\ spectrum.run = runId /\ size = 2
    /\ computed = Modes
    /\ pc[1] = "B_spec" /\ pc[0] = "B_spec"

\* C8: the lists of the ranks partition the modes (and the to-compute list):
\* every mode is in exactly one rank's list, and no two ranks have the same
\* mode's raw file, SVD file or temporary open for writing.
C8_OneWriterPerMode ==
    /\ \A mi \in Modes :
          /\ Cardinality({w \in Active : mi \in Range(mpirange(MMax + 1, w))}) = 1
          /\ Cardinality({w \in Active : mi \in Range(split_local(MMax + 1, w))}) = 1
    /\ \A mi \in Range(m_list) :
          Cardinality({w \in Active : mi \in Range(partition_list_mpi(m_list, w))}) = 1
    /\ \A w \in Active : \A v \in Active \ {w} :
          /\ OpenMFile(w) \cap OpenMFile(v) = {}
          /\ OpenSvd(w) \cap OpenSvd(v) = {}
          /\ OpenTmp(w) \cap OpenTmp(v) = {}

C8_Witness ==
    /\ size = 2
    /\ OpenTmp(0) # {} /\ OpenTmp(1) # {}
    /\ Len(m_list) = MMax + 1

\* C9: when the run generates the raw operators, compression of a mode
\* starts only after every rank has entered the barrier that ends the raw
\* redistribution, with every chunk of every mode written by this run.
C9_CompressionAfterRedistribution ==
    (RawThisRun /\ (computed # {} \/ \E w \in Active : pc[w] \in ComputePcs)) =>
        /\ \A v \in Active : bcount[v] >= RawEndBarrier
        /\ \A mi \in Modes : \A c \in Chunks : mfile[mi].chunks[c] = runId

C9_Witness ==
    /\ RawThisRun /\ size = 2
    /\ pc[0] = "svdwriting" /\ pc[1] = "svdwriting"

\* The latest run that wrote a chunk of a raw operator still on disk.
LatestRawWrite ==
    CHOOSE r \in 0..MaxRuns :
        /\ \E mi \in Modes : \E c \in Chunks : mfile[mi].chunks[c] = r
        /\ \A mi \in Modes : \A c \in Chunks : mfile[mi].chunks[c] <= r

\* C10: whenever the COMPLETED sentinel exists, every mode's raw operator is
\* a closed file in which every chunk has been written, by the most recent
\* raw generation.
C10_SentinelImpliesRawComplete ==
    completed =>
        \A mi \in Modes :
            /\ mfile[mi].st = "complete"
            /\ \A c \in Chunks :
                  mfile[mi].chunks[c] # 0 /\ mfile[mi].chunks[c] = LatestRawWrite

\* C11: once the compression of a mode has failed on one rank, no rank of
\* the run stays for ever in a barrier, broadcast or collective: every rank
\* that waits in one eventually leaves it.
C11_FailureDoesNotBlock ==
    \A w \in Workers :
        []((pc[w] \in BarrierNames \cup {"bcast"}
              /\ \E v \in Active : failedAt[v] = "LinAlgError")
            => <>(pc[w] \notin BarrierNames \cup {"bcast"}))

\* C12: a rank on which the compression of a mode has failed has not left
\* generate(): it goes on with its other modes, the barrier and the
\* aggregation, so it is never stopped by the failure.
C12_FailedModeDoesNotStopWorker ==
    \A w \in Active : failedAt[w] = "LinAlgError" => pc[w] # "failed"

\* C13: a call retries la.svd only on the diagonally regularised matrix, it
\* never calls la.svd more than twice, a call that returns after a
\* non-convergence has logged it and had only that one failure, and a call
\* raises only after its retry has failed as well.
C13_OneRegularisedRetry ==
    /\ nsvd <= 2
    /\ nsvd = 2 => regularised
    /\ (dpc \in {"next", "end"} /\ Len(stages) > 0) =>
          (nfail <= 1 /\ (nfail = 1 => Len(dlog) > 0))
    /\ dpc = "raised" => (nsvd = 2 /\ nfail = 2)

\* C14: beam_svd, invbeam_svd and beam_ut of the full-frequency class, called
\* with a frequency index, end in an error for every mode and never return
\* data, whatever was read and cached before.
C14_FullFreqRejectsFrequencyIndex ==
    (/\ rclass = "BeamTransferFullFreq"
     /\ racc \in {"beam_svd", "invbeam_svd", "beam_ut"}
     /\ lastRead.out # "none"
     /\ lastRead.fi # None)
        => lastRead.out \in {"Exception", "OSError"}

C14_Witness ==
    /\ rclass = "BeamTransferFullFreq" /\ racc = "beam_ut"
    /\ lastRead.fi = 0 /\ lastRead.out = "Exception"
    /\ lastRead.st0 = "complete"
    /\ cache.key = << lastRead.mi, None >>

ShapeExpected ==
    CASE proj.op = "svd_to_telescope" -> proj.shape = << NdofOf(cclass, proj.cut) >>
      [] proj.op = "telescope_to_svd" -> proj.shape = << NFreq, Ntel >>
      [] OTHER -> TRUE

\* C16: a projection whose input does not have the expected per-mode
\* dimensions (an SVD-basis vector whose length is not ndof(mi), a telescope
\* vector with a different number of frequency rows) ends in an error and
\* returns no data.
C16_ShapeMismatchRejected ==
    (proj.out # "none" /\ ~ShapeExpected) => proj.out \in {"ValueError", "IndexError"}


\* C17: on one artifact, a larger svcut never gives a larger ndof(mi), in
\* the frequency-diagonal and in the full-frequency class.
C17_MonotonicCutoff ==
    \A c1, c2 \in Cuts :
        (c1 <= c2 /\ ndofBy[c1] # -1 /\ ndofBy[c2] # -1) => ndofBy[c2] <= ndofBy[c1]

C17_Witness ==
    /\ cclass = "BeamTransfer"
    /\ \E c1, c2 \in Cuts :
          /\ c1 < c2
          /\ ndofBy[c2] > 0
          /\ ndofBy[c1] > ndofBy[c2]


\* C18: 0 <= ndof(mi) <= ndofmax in every class; in the frequency-diagonal
\* class ndof(mi) is the sum of the per-frequency live counts, each at most
\* svd_len, and the block bounds start at 0, never decrease and end at
\* ndof(mi).
C18_NdofBounds ==
    /\ \A c \in Cuts : ndofBy[c] # -1 =>
          (0 <= ndofBy[c] /\ ndofBy[c] <= NdofMaxOf(cclass))
    /\ (cclass = "BeamTransfer" /\ svbounds # << >>) =>
          /\ \A fi \in Freqs : 0 <= svnum[fi] /\ svnum[fi] <= svd_len
          /\ svbounds[1] = 0
          /\ \A fi \in Freqs : svbounds[fi + 2] = svbounds[fi + 1] + svnum[fi]
          /\ \A c \in Cuts : svnum = SvNum(c) => ndofBy[c] \in {-1, svbounds[NFreq + 1]}

C18_Witness ==
    /\ cclass = "BeamTransfer"
    /\ svbounds # << >>
    /\ \E c \in Cuts :
          /\ ndofBy[c] = svbounds[NFreq + 1]
          /\ ndofBy[c] > svd_len
          /\ ndofBy[c] < ndofmax
          /\ \A fi \in Freqs : svnum[fi] > 0


\* C19: the live count of a frequency (of the whole artifact in the
\* full-frequency class) never exceeds the number of modes the compression
\* wrote there, and a projection uses only rows that were written.
C19_LiveRowsWereWritten ==
    /\ (cclass = "BeamTransfer" /\ svnum # << >>) =>
          \A fi \in Freqs :
              svnum[fi] <= Cardinality({j \in 1..svd_len : Slot(fi, j) \in written})
    /\ (cclass = "BeamTransferFullFreq" /\ svnum # << >>) =>
          svnum[1] <= Cardinality(written)
    /\ proj.used \subseteq written

C19_Witness ==
    /\ cclass = "BeamTransfer"
    /\ proj.op = "telescope_to_svd"
    /\ proj.out = "data"
    /\ proj.used = written
    /\ \A fi \in Freqs :
          /\ svnum[fi] > 0
          /\ Slot(fi, svd_len) \notin written


\* Modes whose SVD artifact is in the run directory.
SvdPresent == {mi \in Modes : Exists(svd[mi])}

\* C20: when a generate() run has ended on every rank, the marker
\* beam_m/FULLFREQ_SVD_USED exists exactly if the SVD artifacts in the
\* directory were written by the full-frequency class.
C20_MarkerTellsVariant ==
    AllDone =>
        (marker <=> (/\ SvdPresent # {}
                     /\ \A mi \in SvdPresent : variantOf[svd[mi].run] = "FullFreq"))


\* C21: with num_pol_sky = 1 the block skips SVD1 and SVD2, goes to the
\* final decomposition and does not fail, in BeamTransfer and in
\* BeamTransferFullFreq.
C21_UnpolarisedGoesToFinalStage ==
    (dkind = "staged" /\ dnpol = 1) =>
        /\ dpc # "NameError"
        /\ Len(stages) >= 2
        /\ stages[1] = "skipped" /\ stages[2] = "skipped"


\* C22: when every singular value of the polarisation block is 0,
\* matrix_nullspace keeps the whole space it was given, for any rtol
\* strictly between 0 and 1.
C22_ZeroBlockKeepsEverything ==
    (/\ mcall.fn = "matrix_nullspace"
     /\ mcall.rows > 0
     /\ mcall.rtol \in 1..(CutDen - 1)
     /\ \A i \in 1..Len(mcall.s) : mcall.s[i] = 0)
        => mcall.dim = mcall.rows


\* C23: matrix_image with rtol = 0 keeps exactly the directions whose
\* singular value is strictly positive: nmodes is their number, and the
\* values s3[:nmodes] that are stored are all strictly positive.
C23_FinalStageKeepsPositive ==
    (mcall.fn = "matrix_image" /\ mcall.rtol = 0 /\ mcall.rows > 0) =>
        /\ mcall.dim = Cardinality({i \in 1..Len(mcall.s) : mcall.s[i] > 0})
        /\ \A i \in 1..mcall.dim : mcall.s[i] > 0

C23_Witness ==
    /\ mcall.fn = "matrix_image" /\ mcall.rtol = 0
    /\ mcall.dim > 0
    /\ mcall.dim < Len(mcall.s)


\* Entries of frequency fi in "singularvalues".
Block(fi) == {Slot(fi, j) : j \in 1..svd_len}

\* C24: a frequency at which the stages keep no mode is left blank, its
\* slots are not assigned and stay zero, and the loop goes on to the
\* frequencies after it until the file is closed.
C24_BlankFrequencyStaysZero ==
    cclass = "BeamTransfer" =>
        \A fi \in Freqs :
            /\ (\A k \in Block(fi) : sv[k] = 0) <=> (Block(fi) \cap written = {})
            /\ fi >= wfi => Block(fi) \cap written = {}

C24_Witness ==
    /\ cclass = "BeamTransfer"
    /\ wfi = NFreq
    /\ Block(0) \cap written = {}
    /\ \A fi \in Freqs \ {0} : Block(fi) \cap written # {}


\* C25: when la.pinv fails the compression tries the SVD-based
\* pseudo-inverse once before any error leaves it, in every class that
\* writes invbeam_svd.
C25_PinvRetriedOnce ==
    pinv.out \in {"LinAlgError", "Exception"} => pinv.n = 2


\* C26: BeamTransferFullFreq.project_vector_sky_to_svd returns a vector of
\* exactly ndof(mi) entries for a sky vector of the documented shape.
C26_FullFreqSkyToSvdLength ==
    (cclass = "BeamTransferFullFreq" /\ proj.op = "sky_to_svd") =>
        (proj.out = "data" /\ proj.n = NdofOf(cclass, proj.cut))


\* C27: for every class, generate() with default arguments gets into the
\* per-mode compression: the call of _generate_svdfiles itself does not
\* fail on any rank.
C27_EveryVariantCompresses ==
    (runId > 0 /\ ~regen /\ ~skip_svd) =>
        \A w \in Active : failedAt[w] # "TypeError"

\* C28: once a generate() call made with skip_svd_inv = False has returned, no
\* SVD file of the directory is without the dataset invbeam_svd.
C28_InverseAfterFullRun ==
    (vpc = "done" /\ ~skip_svd_inv) =>
        \A mi \in Modes : datasets[mi] # "without"

\* C29: a call of a cached accessor that returns data returns what the SVD
\* file of the mode it was called for holds at the time of the call, also
\* after a generate() with regen rewrote the file of the mode read last.
C29_ReadReturnsWhatIsOnDisk ==
    [][(UNCHANGED gen /\ lastRead'.out = "data")
          => lastRead'.val = svd[lastRead'.mi].run]_vars

\* C30: the pickled telescope, svdspectrum.hdf5, the COMPLETED sentinel and
\* the FULLFREQ_SVD_USED marker are created and written in steps of rank 0
\* only.
C30_SharedFilesByRank0 ==
    [][(\/ pickleRun' # pickleRun
        \/ spectrum' # spectrum
        \/ completed' # completed
        \/ marker' # marker) => pc'[0] # pc[0]]_vars

====
